---- MODULE Spec2Model ----
(***************************************************************************)
(* Model of the dropwishes-api blog comment endpoints                       *)
(* (src/app/blog/views.py, src/app/blog/serializers.py,                    *)
(* src/app/user/permissions.py, src/app/core/models.py).                   *)
(*                                                                         *)
(* The store is the Comment table.  One action stands for one HTTP         *)
(* handler, run to completion; the variable last holds the request that    *)
(* was served last and the response it got, and before is the table as it  *)
(* was when that request came in.  SpecRace runs the create handler of two *)
(* workers query by query, to study overlapping requests.  SpecShare,      *)
(* SpecProduct and SpecMerge serve the wishlist endpoints                  *)
(* (src/app/wishlist/views.py, src/app/wishlist/serializers.py), SpecBlog  *)
(* the post, tag and comment endpoints together, and SpecUser the account  *)
(* endpoints (src/app/user/views.py).                                      *)
(***************************************************************************)
EXTENDS Integers, Sequences, FiniteSets, TLC

VARIABLES comments, nextId, last, before, served, inflight,
          wishlists, products, seq, old, links,
          removed, posts, tags, users, bseq, was

\* The Wishlist and Product tables, their primary-key sequences, and the two
\* tables as they were when the request being served came in; links holds
\* the share links the clients were given.
wvars == <<wishlists, products, seq, old, links>>

\* The Post, Tag and User tables, the primary-key sequences of the first two,
\* and the three tables as they were when the request being served came in.
bvars == <<posts, tags, users, bseq, was>>

\* The Comment table and the requests on it; removed holds the rows that
\* DELETE requests took out of the table.
cvars == <<comments, nextId, before, inflight, removed, bvars>>

vars == <<comments, nextId, last, before, served, inflight,
          wishlists, products, seq, old, links,
          removed, posts, tags, users, bseq, was>>

(***************************************************************************)
(* Bounds and populations                                                  *)
(***************************************************************************)
\* Number of requests the server takes in one run.
MaxRequests == 4

\* User rows.  Users 1 and 2 are staff, user 3 is a regular user.
Users == {1, 2, 3}
Staff == {1, 2}
\* The requesters of the sequential runs: 0 is an anonymous request, 1 a
\* staff user and 3 a regular user, both authenticated by token.
Actors == {0, 1, 3}
\* The server processes that serve overlapping requests.
Workers == {1, 2}

\* Post rows, and one primary key that names no post.
Posts == DOMAIN posts
PostInputs == Posts \cup {bseq.post}

\* Comment bodies a client sends; 0 is the blank body.  A new comment is
\* posted with body 1 and an edit may turn it into body 2.
NewBodies == {0, 1}
BodyInputs == {0, 1, 2}

\* SQL NULL / Python None.
NULL == 0

HTTP_200_OK == 200
HTTP_201_CREATED == 201
HTTP_204_NO_CONTENT == 204
HTTP_400_BAD_REQUEST == 400
HTTP_401_UNAUTHORIZED == 401
HTTP_403_FORBIDDEN == 403
HTTP_404_NOT_FOUND == 404
HTTP_405_METHOD_NOT_ALLOWED == 405
\* An exception that no handler catches.
SERVER_ERROR == 400 + 100

SAFE_METHODS == {"GET", "HEAD", "OPTIONS"}

(***************************************************************************)
(* Request payloads: a dict with any subset of the serializer's writable   *)
(* keys.                                                                   *)
(***************************************************************************)
Keys == {"body", "post", "parent_comment"}

\* A key of a payload is left out (<<>>) or carries a value (<<v>>).
Optional(values) == {<<>>} \cup { <<v>> : v \in values }

Dict(body, post, parent_comment) ==
    [ k \in { "body" : x \in {body} \ {<<>>} }
             \cup { "post" : x \in {post} \ {<<>>} }
             \cup { "parent_comment" : x \in {parent_comment} \ {<<>>} } |->
        IF k = "body" THEN body[1]
        ELSE IF k = "post" THEN post[1]
        ELSE parent_comment[1] ]

\* bodies: the bodies, ids: the primary keys for parent_comment a client may
\* send.
Payloads(bodies, ids) ==
    { Dict(b, p, c) : b \in Optional(bodies), p \in Optional(PostInputs),
                      c \in Optional({NULL} \cup ids) }

\* What a client sends to update a comment: PATCH carries at most one key,
\* PUT carries the whole resource.  <<data, partial>>.
Updates(ids) ==
    { <<d, TRUE>> :
          d \in { e \in Payloads(BodyInputs, ids) : Cardinality(DOMAIN e) <= 1 } }
    \cup { <<d, FALSE>> :
          d \in { e \in Payloads(BodyInputs, ids) : DOMAIN e = Keys } }

\* Updates that name an owner, a read-only field of the serializer: PATCH
\* with the owner alone, and with a new body.
OwnerUpdates ==
    { <<[k \in {"owner"} |-> u], TRUE>> : u \in Users }
    \cup { <<[k \in {"owner", "body"} |-> IF k = "owner" THEN u ELSE 2], TRUE>> :
              u \in Users }

\* The primary keys of the rows that exist, and one that names no row.
Pks == 1..nextId

\* request.data.get(k)
Get(data, k) == IF k \in DOMAIN data THEN data[k] ELSE NULL

(***************************************************************************)
(* core.models                                                             *)
(***************************************************************************)
is_staff(u) == u \in Staff

\* Comment.replies: the reverse side of the parent_comment foreign key.
replies(cs, c) == { r \in DOMAIN cs : cs[r].parent_comment = c }

\* Meta.ordering = ("-created_at",): newest row first.  Rows are inserted in
\* primary-key order and created_at never changes.
RECURSIVE ordering(_)
ordering(S) ==
    IF S = {} THEN <<>>
    ELSE LET m == CHOOSE x \in S : \A y \in S : y <= x
         IN  <<m>> \o ordering(S \ {m})

\* on_delete=CASCADE on parent_comment: the rows deleted with row c.
RECURSIVE Collect(_, _, _)
Collect(cs, todo, seen) ==
    IF todo = {} THEN seen
    ELSE LET more == UNION { replies(cs, c) : c \in todo } \ (seen \cup todo)
         IN  Collect(cs, more, seen \cup todo)

\* Row c is its own ancestor along parent_comment.
RECURSIVE Ancestors(_, _, _)
Ancestors(cs, c, seen) ==
    LET p == cs[c].parent_comment
    IN  IF p = NULL \/ p \notin DOMAIN cs \/ p \in seen THEN seen
        ELSE Ancestors(cs, p, seen \cup {p})

OnCycle(cs, c) == c \in Ancestors(cs, c, {})

(***************************************************************************)
(* user.permissions and the permission classes of the comment views        *)
(***************************************************************************)
\* A faulty variant of the next permission: every requester is let in.
AllowAny(method, a) == TRUE

IsAuthenticatedOrReadOnly(method, a) ==
    method \in SAFE_METHODS \/ a \in Users

\* A faulty variant of the next permission: the staff flag is not looked at.
IsAuthenticatedNotAdmin(method, a) ==
    method \in SAFE_METHODS \/ a \in Users

IsAdminOrReadOnly(method, a) ==
    method \in SAFE_METHODS \/ (a \in Users /\ is_staff(a))

\* A faulty variant of the next permission: staff may edit the objects of
\* other users.
IsOwnerOrAdmin(method, a, obj) ==
    method \in SAFE_METHODS \/ obj.owner = a \/ (a \in Users /\ is_staff(a))

IsOwnerOrReadOnly(method, a, obj) ==
    method \in SAFE_METHODS \/ obj.owner = a

\* The status of a denied request: NotAuthenticated for an anonymous
\* requester, PermissionDenied for an authenticated one.
Denied(a) == IF a \in Users THEN HTTP_403_FORBIDDEN ELSE HTTP_401_UNAUTHORIZED

(***************************************************************************)
(* blog.serializers.CommentSerializer                                      *)
(***************************************************************************)
\* is_valid(): body is required and not blank, post is required and names a
\* post, parent_comment is optional, nullable and names a comment.  owner and
\* replies are read only.  partial is True for PATCH.
is_valid(data, partial, cs) ==
    /\ partial \/ "body" \in DOMAIN data
    /\ "body" \in DOMAIN data => data["body"] # 0
    /\ partial \/ "post" \in DOMAIN data
    /\ "post" \in DOMAIN data => data["post"] \in Posts
    /\ "parent_comment" \in DOMAIN data =>
           data["parent_comment"] = NULL \/ data["parent_comment"] \in DOMAIN cs

\* ModelSerializer.create with the owner the view passes to save().
create(data, owner) ==
    [ body |-> data["body"], post |-> data["post"],
      parent_comment |-> Get(data, "parent_comment"), owner |-> owner ]

\* A faulty variant of update: the owner a client names is assigned too.
update_owner(obj, data) ==
    [ body |-> IF "body" \in DOMAIN data THEN data["body"] ELSE obj.body,
      post |-> IF "post" \in DOMAIN data THEN data["post"] ELSE obj.post,
      parent_comment |-> IF "parent_comment" \in DOMAIN data
                         THEN data["parent_comment"] ELSE obj.parent_comment,
      owner |-> IF "owner" \in DOMAIN data THEN data["owner"] ELSE obj.owner ]

\* ModelSerializer.update: every validated key is assigned, the rest is kept.
\* owner is a ReadOnlyField and never among the validated keys.
update(obj, data) ==
    [ body |-> IF "body" \in DOMAIN data THEN data["body"] ELSE obj.body,
      post |-> IF "post" \in DOMAIN data THEN data["post"] ELSE obj.post,
      parent_comment |-> IF "parent_comment" \in DOMAIN data
                         THEN data["parent_comment"] ELSE obj.parent_comment,
      owner |-> obj.owner ]

\* get_replies: the replies of a comment, each serialized the same way.
\* Only evaluated for rows that are not on a cycle.
RECURSIVE to_representation(_, _)
get_replies(cs, c) ==
    LET order == ordering(replies(cs, c))
    IN  [ i \in 1..Len(order) |-> to_representation(cs, order[i]) ]

to_representation(cs, c) ==
    [ id |-> c, body |-> cs[c].body, owner |-> cs[c].owner, post |-> cs[c].post,
      parent_comment |-> cs[c].parent_comment, replies |-> get_replies(cs, c) ]

(***************************************************************************)
(* blog.views.CommentListCreateView                                        *)
(***************************************************************************)
\* get_queryset: top-level comments only.
get_queryset(cs) == { c \in DOMAIN cs : cs[c].parent_comment = NULL }

\* A faulty variant of the next checks: a reply that was deleted still counts
\* as the reply of its parent.
create_checks_counting_deleted(a, data, cs) ==
    IF ~IsAuthenticatedOrReadOnly("POST", a) THEN Denied(a)
    ELSE IF ~is_valid(data, FALSE, cs) THEN HTTP_400_BAD_REQUEST
    ELSE LET parent_comment_id == Get(data, "parent_comment")
         IN  IF parent_comment_id = NULL THEN HTTP_201_CREATED
             ELSE IF cs[parent_comment_id].parent_comment # NULL
                  THEN HTTP_400_BAD_REQUEST
             ELSE IF replies(cs, parent_comment_id) # {}
                     \/ replies(removed, parent_comment_id) # {}
                  THEN HTTP_400_BAD_REQUEST
             ELSE IF ~IsAdminOrReadOnly("POST", a) THEN HTTP_403_FORBIDDEN
             ELSE HTTP_201_CREATED

\* A faulty variant of the next checks: the privilege of the requester is
\* looked at before the parent comment is.
create_checks_privilege_first(a, data, cs) ==
    IF ~IsAuthenticatedOrReadOnly("POST", a) THEN Denied(a)
    ELSE IF ~is_valid(data, FALSE, cs) THEN HTTP_400_BAD_REQUEST
    ELSE LET parent_comment_id == Get(data, "parent_comment")
         IN  IF parent_comment_id = NULL THEN HTTP_201_CREATED
             ELSE IF ~IsAdminOrReadOnly("POST", a) THEN HTTP_403_FORBIDDEN
             ELSE IF cs[parent_comment_id].parent_comment # NULL
                  THEN HTTP_400_BAD_REQUEST
             ELSE IF replies(cs, parent_comment_id) # {}
                  THEN HTTP_400_BAD_REQUEST
             ELSE HTTP_201_CREATED

\* The checks of create() up to perform_create: the status of the rejection,
\* or HTTP_201_CREATED when the request passes them all.
create_checks(a, data, cs) ==
    IF ~IsAuthenticatedOrReadOnly("POST", a) THEN Denied(a)
    ELSE IF ~is_valid(data, FALSE, cs) THEN HTTP_400_BAD_REQUEST
    ELSE LET parent_comment_id == Get(data, "parent_comment")
         IN  IF parent_comment_id = NULL THEN HTTP_201_CREATED
             ELSE IF cs[parent_comment_id].parent_comment # NULL
                  THEN HTTP_400_BAD_REQUEST
             ELSE IF replies(cs, parent_comment_id) # {}
                  THEN HTTP_400_BAD_REQUEST
             ELSE IF ~IsAdminOrReadOnly("POST", a) THEN HTTP_403_FORBIDDEN
             ELSE HTTP_201_CREATED

\* perform_create: serializer.save(owner=self.request.user)
perform_create(cs, id, a, data) ==
    [ c \in DOMAIN cs \cup {id} |-> IF c = id THEN create(data, a) ELSE cs[c] ]

Response(op, a, pk, data, status, body) ==
    [ op |-> op, actor |-> a, pk |-> pk,
      post |-> Get(data, "post"), parent_comment |-> Get(data, "parent_comment"),
      body |-> Get(data, "body"), status |-> status, data |-> body ]

NoData == [k \in {} |-> 0]

\* No request is being served.
NoRequest == Response("none", 0, NULL, NoData, 0, <<>>)

\* The worker is free to take a request.
Idle == last = NoRequest /\ served < MaxRequests

\* A faulty variant of the next handler: the row is saved as soon as the
\* payload is valid, before the checks on the parent and on the requester.
CommentCreate_save_first(a, data) ==
    LET status == create_checks(a, data, comments)
        saved == IsAuthenticatedOrReadOnly("POST", a) /\ is_valid(data, FALSE, comments)
    IN  /\ Idle
        /\ served' = served + 1
        /\ before' = comments
        /\ comments' = IF saved
                       THEN perform_create(comments, nextId, a, data)
                       ELSE comments
        /\ nextId' = IF saved THEN nextId + 1 ELSE nextId
        /\ last' = Response("create", a,
                            IF status = HTTP_201_CREATED THEN nextId ELSE NULL,
                            data, status, <<>>)
        /\ UNCHANGED <<inflight, wvars, bvars, removed>>

\* POST /comments/
CommentCreate(a, data) ==
    LET status == create_checks(a, data, comments)
    IN  /\ Idle
        /\ served' = served + 1
        /\ before' = comments
        /\ comments' = IF status = HTTP_201_CREATED
                       THEN perform_create(comments, nextId, a, data)
                       ELSE comments
        /\ nextId' = IF status = HTTP_201_CREATED THEN nextId + 1 ELSE nextId
        /\ last' = Response("create", a,
                            IF status = HTTP_201_CREATED THEN nextId ELSE NULL,
                            data, status, <<>>)
        /\ UNCHANGED <<inflight, wvars, bvars, removed>>

\* list(): the serialized queryset, newest first.
list(cs) ==
    LET order == ordering(get_queryset(cs))
    IN  [ i \in 1..Len(order) |-> to_representation(cs, order[i]) ]

\* GET /comments/
CommentList(a) ==
    /\ Idle
    /\ served' = served + 1
    /\ before' = comments
    /\ last' = Response("list", a, NULL, NoData, HTTP_200_OK, list(comments))
    /\ UNCHANGED <<comments, nextId, inflight, wvars, bvars, removed>>

(***************************************************************************)
(* blog.views.CommentDetailView                                            *)
(***************************************************************************)
\* get_object() and check_object_permissions(): 0 when the request may go on.
get_object(method, a, pk, cs) ==
    IF pk \notin DOMAIN cs THEN HTTP_404_NOT_FOUND
    ELSE IF ~IsOwnerOrReadOnly(method, a, cs[pk]) THEN Denied(a)
    ELSE 0

\* The response of a handler that serializes row pk of store cs.
Serialized(cs, pk, ok) == IF OnCycle(cs, pk) THEN SERVER_ERROR ELSE ok

\* GET /comments/<pk>/
CommentRetrieve(a, pk) ==
    LET denied == get_object("GET", a, pk, comments)
    IN  /\ Idle
        /\ served' = served + 1
        /\ before' = comments
        /\ last' = Response("retrieve", a, pk, NoData,
                            IF denied # 0 THEN denied
                            ELSE Serialized(comments, pk, HTTP_200_OK), <<>>)
        /\ UNCHANGED <<comments, nextId, inflight, wvars, bvars, removed>>

\* PUT /comments/<pk>/ (partial = FALSE) and PATCH /comments/<pk>/
CommentUpdate(a, pk, data, partial) ==
    LET method == IF partial THEN "PATCH" ELSE "PUT"
        denied == get_object(method, a, pk, comments)
        valid  == is_valid(data, partial, comments)
        saved  == [comments EXCEPT ![pk] = update(comments[pk], data)]
    IN  /\ Idle
        /\ served' = served + 1
        /\ before' = comments
        /\ comments' = IF denied = 0 /\ valid THEN saved ELSE comments
        /\ last' = Response("update", a, pk, NoData,
                            IF denied # 0 THEN denied
                            ELSE IF ~valid THEN HTTP_400_BAD_REQUEST
                            ELSE Serialized(saved, pk, HTTP_200_OK),
                            IF "owner" \in DOMAIN data
                            THEN <<data["owner"]>> ELSE <<>>)
        /\ UNCHANGED <<nextId, inflight, wvars, bvars, removed>>

\* DELETE /comments/<pk>/
CommentDestroy(a, pk) ==
    LET denied == get_object("DELETE", a, pk, comments)
        gone   == Collect(comments, {pk}, {})
    IN  /\ Idle
        /\ served' = served + 1
        /\ before' = comments
        /\ comments' = IF denied = 0
                       THEN [c \in DOMAIN comments \ gone |-> comments[c]]
                       ELSE comments
        /\ removed' = IF denied = 0
                      THEN [c \in DOMAIN removed \cup gone |->
                               IF c \in gone THEN comments[c] ELSE removed[c]]
                      ELSE removed
        /\ last' = Response("destroy", a, pk, NoData,
                            IF denied # 0 THEN denied ELSE HTTP_204_NO_CONTENT,
                            <<>>)
        /\ UNCHANGED <<nextId, inflight, wvars, bvars>>

(***************************************************************************)
(* Specification: requests served one after the other                      *)
(***************************************************************************)
\* A worker that serves no request.
Free == [pc |-> "idle", r |-> NoRequest]

Init ==
    /\ comments = [c \in {} |-> 0]
    /\ nextId = 1
    /\ last = NoRequest
    /\ before = comments
    /\ served = 0
    /\ inflight = [w \in Workers |-> Free]
    /\ wishlists = [w \in {} |-> 0]
    /\ products = [p \in {} |-> 0]
    /\ seq = [wishlist |-> 1, product |-> 1]
    /\ old = [wishlists |-> wishlists, products |-> products]
    /\ links = {}
    /\ removed = [c \in {} |-> 0]
    /\ posts = [p \in Staff |-> [owner |-> p, title |-> 1, tags |-> {}]]
    /\ tags = [t \in {} |-> 0]
    /\ users = [u \in Users |-> [is_active |-> TRUE, first_name |-> 1, token |-> TRUE]]
    /\ bseq = [post |-> 3, tag |-> 1]
    /\ was = [posts |-> posts, tags |-> tags, users |-> users]

\* The response is sent and the worker is free again.
Respond ==
    /\ last # NoRequest
    /\ last' = NoRequest
    /\ before' = comments
    /\ UNCHANGED <<comments, nextId, served, inflight, wvars, bvars, removed>>

\* The requesters whose request the worker can take.
Clients == IF Idle THEN Actors ELSE {}

Next ==
    \/ Respond
    \/ \E a \in Clients : \E data \in Payloads(NewBodies, Pks) :
           CommentCreate(a, data)
    \/ \E a \in Clients : CommentList(a)
    \/ \E a \in Clients : \E pk \in Pks : CommentRetrieve(a, pk)
    \/ \E a \in Clients : \E pk \in Pks, u \in Updates(Pks) \cup OwnerUpdates :
           CommentUpdate(a, pk, u[1], u[2])
    \/ \E a \in Clients : \E pk \in Pks : CommentDestroy(a, pk)

Spec == Init /\ [][Next]_vars

(***************************************************************************)
(* Specification: two workers serve POST /comments/ and GET /comments/ at  *)
(* the same time.  create() runs its queries one by one with no            *)
(* transaction and no lock around them, so the queries of one worker       *)
(* interleave with those of the other: RaceCheck is create() up to         *)
(* perform_create, RaceInsert is perform_create.                           *)
(***************************************************************************)
\* The payloads of the overlapping requests: every key that is sent is valid.
RacePayloads(ids) ==
    { Dict(<<1>>, <<p>>, c) : p \in Posts, c \in Optional(ids) }

\* create(), from is_valid() to the last check before perform_create.
RaceCheck(w, a, data) ==
    LET status == create_checks(a, data, comments)
    IN  /\ inflight[w].pc = "idle"
        /\ served < MaxRequests
        /\ served' = served + 1
        /\ inflight' = [inflight EXCEPT ![w] =
               [ pc |-> IF status = HTTP_201_CREATED THEN "checked" ELSE "done",
                 r  |-> Response("create", a, NULL, data,
                                 IF status = HTTP_201_CREATED THEN 0 ELSE status,
                                 <<>>) ]]
        /\ UNCHANGED <<comments, nextId, last, before, wvars, bvars, removed>>

\* create(), perform_create and the response.
RaceInsert(w) ==
    LET r == inflight[w].r
        data == [ k \in { "body", "post" }
                         \cup { "parent_comment" : x \in {r.parent_comment} \ {NULL} } |->
                    r[k] ]
    IN  /\ inflight[w].pc = "checked"
        /\ comments' = perform_create(comments, nextId, r.actor, data)
        /\ nextId' = nextId + 1
        /\ inflight' = [inflight EXCEPT ![w] =
               [ pc |-> "done",
                 r  |-> [r EXCEPT !.pk = nextId, !.status = HTTP_201_CREATED] ]]
        /\ UNCHANGED <<last, before, served, wvars, bvars, removed>>

\* GET /comments/ served by worker w.
RaceList(w, a) ==
    /\ inflight[w].pc = "idle"
    /\ served < MaxRequests
    /\ served' = served + 1
    /\ inflight' = [inflight EXCEPT ![w] =
           [ pc |-> "done",
             r  |-> Response("list", a, NULL, NoData, HTTP_200_OK, list(comments)) ]]
    /\ UNCHANGED <<comments, nextId, last, before, wvars, bvars, removed>>

\* The response of worker w is sent and the worker is free again.
RaceRespond(w) ==
    /\ inflight[w].pc = "done"
    /\ inflight' = [inflight EXCEPT ![w] = Free]
    /\ UNCHANGED <<comments, nextId, last, before, served, wvars, bvars, removed>>

NextRace ==
    \/ \E w \in Workers, a \in Users, data \in RacePayloads(Pks) :
           RaceCheck(w, a, data)
    \/ \E w \in Workers : RaceInsert(w)
    \/ \E w \in Workers, a \in Users : RaceList(w, a)
    \/ \E w \in Workers : RaceRespond(w)

SpecRace == Init /\ [][NextRace]_vars

(***************************************************************************)
(* core.models: User.uuid, Wishlist, Product                               *)
(***************************************************************************)
\* User.uuid: a value of its own for every user.
uuid(u) == 10 + u

\* The elements of a sequence.
Range(s) == { s[i] : i \in 1..Len(s) }

\* The columns of Wishlist and of Product the endpoints read and write; the
\* many-to-many field products is held with the wishlist.
WishlistFields == {"user", "title", "products"}
ProductFields == {"user", "name"}

\* getattr(obj, name) raises AttributeError unless obj has the attribute.
hasattr(obj, name) == name \in DOMAIN obj

\* Model.save(): the columns of the row are written, and nothing else the
\* instance carries.
save(instance, fields) == [ f \in fields |-> instance[f] ]

\* instance.name = value
setattr(instance, name, value) ==
    [ f \in DOMAIN instance \cup {name} |->
        IF f = name THEN value ELSE instance[f] ]

\* A queryset without order_by, as the database returns it: by primary key.
RECURSIVE by_pk(_)
by_pk(S) ==
    IF S = {} THEN <<>>
    ELSE LET m == CHOOSE x \in S : \A y \in S : x <= y
         IN  <<m>> \o by_pk(S \ {m})

(***************************************************************************)
(* wishlist.serializers                                                    *)
(***************************************************************************)
\* ProductSerializer / WishlistSerializer output of stored rows.
product_data(ps, p) == [ id |-> p, name |-> ps[p].name ]

wishlist_data(ws, ps, w) ==
    LET items == by_pk(ws[w].products)
    IN  [ id |-> w, title |-> ws[w].title,
          products |-> [ i \in 1..Len(items) |-> product_data(ps, items[i]) ] ]

\* WishlistSerializer._get_or_create_products: the product table and the
\* products of the wishlist after get_or_create(user=auth_user, **product)
\* and wishlist.products.add() for the first n entries of names.
\* <<product table, next product id, products of the wishlist>>
RECURSIVE _get_or_create_products(_, _, _, _, _)
_get_or_create_products(ps, next, auth_user, names, n) ==
    IF n = 0 THEN <<ps, next, {}>>
    ELSE LET prev == _get_or_create_products(ps, next, auth_user, names, n - 1)
             found == { p \in DOMAIN prev[1] :
                          /\ prev[1][p].user = auth_user
                          /\ prev[1][p].name = names[n] }
         IN  IF found # {}
             THEN <<prev[1], prev[2], prev[3] \cup {CHOOSE p \in found : TRUE}>>
             ELSE << [ p \in DOMAIN prev[1] \cup {prev[2]} |->
                         IF p = prev[2]
                         THEN [ user |-> auth_user, name |-> names[n] ]
                         ELSE prev[1][p] ],
                     prev[2] + 1,
                     prev[3] \cup {prev[2]} >>

\* WishlistSerializer.is_valid: the title is required and not blank.
wishlist_is_valid(payload) == payload.title # 0

\* WishlistSerializer.create with the user the view passes to save():
\* <<wishlist table, product table, sequences>> after the wishlist is stored
\* and its products are attached.
wishlist_create(ws, ps, sq, user, payload) ==
    LET got == _get_or_create_products(ps, sq.product, user,
                                       payload.products, Len(payload.products))
        row == [ user |-> user, title |-> payload.title, products |-> got[3] ]
    IN  << [ w \in DOMAIN ws \cup {sq.wishlist} |->
               IF w = sq.wishlist THEN row ELSE ws[w] ],
           got[1],
           [ wishlist |-> sq.wishlist + 1, product |-> got[2] ] >>

(***************************************************************************)
(* wishlist.views.WishlistViewSet                                          *)
(***************************************************************************)
\* permission_classes = [IsAuthenticated]
IsAuthenticated(a) == a \in Users

\* The request served last and its response.
WResponse(op, a, args, status, data) ==
    [ op |-> op, actor |-> a, args |-> args, status |-> status, data |-> data ]

\* What every wishlist handler does besides its own work.
Serve(ws, ps, sq) ==
    /\ Idle
    /\ served' = served + 1
    /\ old' = [wishlists |-> wishlists, products |-> products]
    /\ wishlists' = ws
    /\ products' = ps
    /\ seq' = sq
    /\ UNCHANGED cvars

\* POST /wishlists/ (CreateModelMixin.create, perform_create)
WishlistCreate(a, payload) ==
    LET status == IF ~IsAuthenticated(a) THEN HTTP_401_UNAUTHORIZED
                  ELSE IF ~wishlist_is_valid(payload) THEN HTTP_400_BAD_REQUEST
                  ELSE HTTP_201_CREATED
        made == wishlist_create(wishlists, products, seq, a, payload)
    IN  IF status = HTTP_201_CREATED
        THEN /\ Serve(made[1], made[2], made[3])
             /\ last' = WResponse("create", a, [payload |-> payload], status,
                                  wishlist_data(made[1], made[2], seq.wishlist))
             /\ UNCHANGED links
        ELSE /\ Serve(wishlists, products, seq)
             /\ last' = WResponse("create", a, [payload |-> payload], status, <<>>)
             /\ UNCHANGED links

\* WishlistViewSet.get_queryset: the wishlists of the requester.
wishlist_queryset(ws, a) == { w \in DOMAIN ws : ws[w].user = a }

\* DELETE /wishlists/<pk>/ (DestroyModelMixin.destroy)
WishlistDestroy(a, pk) ==
    LET status == IF ~IsAuthenticated(a) THEN HTTP_401_UNAUTHORIZED
                  ELSE IF pk \notin wishlist_queryset(wishlists, a)
                       THEN HTTP_404_NOT_FOUND
                  ELSE HTTP_204_NO_CONTENT
    IN  /\ Serve(IF status = HTTP_204_NO_CONTENT
                 THEN [ w \in DOMAIN wishlists \ {pk} |-> wishlists[w] ]
                 ELSE wishlists,
                 products, seq)
        /\ last' = WResponse("destroy", a, [pk |-> pk], status, <<>>)
        /\ UNCHANGED links

\* The share link: the uuid of the user and the ids, joined by commas.
share_link(user, ids) == [ uuid |-> uuid(user), ids |-> ids ]

\* generate_share_link on the wishlist table ws, with the list wishlist_ids
\* as body: the status, the table after it and the link.
generate_share_link(ws, a, wishlist_ids) ==
    LET found == { w \in DOMAIN ws : w \in wishlist_ids /\ ws[w].user = a }
        status == IF ~IsAuthenticated(a) THEN HTTP_401_UNAUTHORIZED
                  ELSE IF wishlist_ids = {} THEN HTTP_400_BAD_REQUEST
                  ELSE IF found = {} THEN HTTP_404_NOT_FOUND
                  ELSE HTTP_200_OK
    IN  IF status = HTTP_200_OK
        THEN [ status |-> status,
               wishlists |-> [ w \in DOMAIN ws |->
                                 IF w \in found
                                 THEN save(setattr(ws[w], "is_public", TRUE),
                                           WishlistFields)
                                 ELSE ws[w] ],
               data |-> share_link(a, by_pk(found)) ]
        ELSE [ status |-> status, wishlists |-> ws, data |-> <<>> ]

\* POST /wishlists/generate-shared-link/
GenerateShareLink(a, wishlist_ids) ==
    LET r == generate_share_link(wishlists, a, wishlist_ids)
    IN  /\ Serve(r.wishlists, products, seq)
        /\ last' = WResponse("generate_share_link", a, [ids |-> wishlist_ids],
                             r.status, r.data)
        /\ links' = IF r.status = HTTP_200_OK THEN links \cup {r.data} ELSE links

\* view_shared_wishlist on the tables ws and ps: the status and the data.
view_shared_wishlist(ws, ps, a, user_uuid, wishlist_ids) ==
    LET wishlist_ids_list == Range(wishlist_ids)
        found == { w \in DOMAIN ws :
                     w \in wishlist_ids_list /\ uuid(ws[w].user) = user_uuid }
        status == IF ~IsAuthenticated(a) THEN HTTP_401_UNAUTHORIZED
                  ELSE IF found = {} THEN HTTP_404_NOT_FOUND
                  ELSE IF \E w \in found : ~hasattr(ws[w], "is_public")
                       THEN SERVER_ERROR
                  ELSE IF \E w \in found : ~ws[w]["is_public"]
                       THEN HTTP_400_BAD_REQUEST
                  ELSE HTTP_200_OK
        rows == by_pk(found)
    IN  [ status |-> status,
          data |-> IF status = HTTP_200_OK
                   THEN [ i \in 1..Len(rows) |-> wishlist_data(ws, ps, rows[i]) ]
                   ELSE <<>> ]

\* GET /wishlists/view/<user_uuid>/<wishlist_ids>/
ViewSharedWishlist(a, user_uuid, wishlist_ids) ==
    LET r == view_shared_wishlist(wishlists, products, a, user_uuid, wishlist_ids)
    IN  /\ Serve(wishlists, products, seq)
        /\ last' = WResponse("view_shared_wishlist", a,
                             [uuid |-> user_uuid, ids |-> wishlist_ids],
                             r.status, r.data)
        /\ UNCHANGED links

\* The response is sent and the worker is free again.
WRespond ==
    /\ last # NoRequest
    /\ last' = NoRequest
    /\ old' = [wishlists |-> wishlists, products |-> products]
    /\ UNCHANGED <<wishlists, products, seq, links, served, cvars>>

\* The primary keys a client may name: those handed out, and one more.
WishlistPks == 1..seq.wishlist

\* Lists of ids a client may send: any one or two wishlist ids.
IdSets == { S \in SUBSET WishlistPks : Cardinality(S) <= 2 }

\* The links a client may follow: those handed out, and links clients make
\* up from a uuid and an id.
LinkInputs ==
    links \cup { share_link(u, <<w>>) : u \in Users, w \in WishlistPks }

\* A wishlist payload without products, with a title or a blank one.
PlainPayloads == { [title |-> b, products |-> <<>>] : b \in {0, 1} }

NextShare ==
    \/ WRespond
    \/ \E a \in Clients : \E payload \in PlainPayloads : WishlistCreate(a, payload)
    \/ \E a \in Clients : \E pk \in WishlistPks : WishlistDestroy(a, pk)
    \/ \E a \in Clients : \E ids \in IdSets : GenerateShareLink(a, ids)
    \/ \E a \in Clients : \E l \in LinkInputs :
           ViewSharedWishlist(a, l.uuid, l.ids)

SpecShare == Init /\ [][NextShare]_vars

(***************************************************************************)
(* wishlist.views.ProductViewSet                                           *)
(***************************************************************************)
\* ProductViewSet.get_queryset is queryset.filter(user=request.user): the
\* products of the requester.  For an anonymous requester the filter raises
\* TypeError (AnonymousUser is no value for a foreign key), see QuerysetFails.
product_queryset(ps, a) == { p \in DOMAIN ps : ps[p].user = a }

QuerysetFails(a) == a \notin Users

\* PublicReservePermission.has_permission
PublicReservePermission(action, a) ==
    action \in {"reserve", "unreserve"} \/ a \in Users

\* get_object() of a detail route under permission_classes =
\* [IsOwnerOrReadOnly]: 0 when the object is found and the request may go on,
\* the status of the response otherwise.  has_object_permission reads
\* obj.owner for every method that is not safe.
product_object(method, a, pk, ps) ==
    IF QuerysetFails(a) THEN SERVER_ERROR
    ELSE IF pk \notin product_queryset(ps, a) THEN HTTP_404_NOT_FOUND
    ELSE IF method \notin SAFE_METHODS /\ ~hasattr(ps[pk], "owner")
         THEN SERVER_ERROR
    ELSE IF ~IsOwnerOrReadOnly(method, a, ps[pk]) THEN Denied(a)
    ELSE 0

\* A wishlist handler that leaves the tables as they are.
Answer(op, a, args, status, data) ==
    /\ Serve(wishlists, products, seq)
    /\ last' = WResponse(op, a, args, status, data)
    /\ UNCHANGED links

\* order_by('-name'): the rows of S by name, largest first; rows of one name
\* by primary key.
RECURSIVE by_name_desc(_, _)
by_name_desc(ps, S) ==
    IF S = {} THEN <<>>
    ELSE LET m == CHOOSE x \in S : \A y \in S :
                      \/ ps[y].name < ps[x].name
                      \/ ps[y].name = ps[x].name /\ x <= y
         IN  <<m>> \o by_name_desc(ps, S \ {m})

\* GET /products/: the products of the requester.
ProductList(a) ==
    LET rows == by_name_desc(products, product_queryset(products, a))
    IN  IF QuerysetFails(a)
        THEN Answer("list", a, <<>>, SERVER_ERROR, <<>>)
        ELSE Answer("list", a, <<>>, HTTP_200_OK,
                    [ i \in 1..Len(rows) |-> product_data(products, rows[i]) ])

\* PATCH /products/<pk>/ with a new name (UpdateModelMixin)
ProductUpdate(a, pk, name) ==
    LET denied == product_object("PATCH", a, pk, products)
    IN  /\ Idle
        /\ served' = served + 1
        /\ old' = [wishlists |-> wishlists, products |-> products]
        /\ products' = IF denied = 0
                       THEN [products EXCEPT ![pk] =
                               save(setattr(products[pk], "name", name),
                                    ProductFields)]
                       ELSE products
        /\ last' = WResponse("update", a, [pk |-> pk],
                             IF denied = 0 THEN HTTP_200_OK ELSE denied, <<>>)
        /\ UNCHANGED <<wishlists, seq, links, cvars>>

\* DELETE /products/<pk>/ (DestroyModelMixin): the row goes, and with it its
\* place in every wishlist.
ProductDestroy(a, pk) ==
    LET denied == product_object("DELETE", a, pk, products)
    IN  /\ Idle
        /\ served' = served + 1
        /\ old' = [wishlists |-> wishlists, products |-> products]
        /\ products' = IF denied = 0
                       THEN [ p \in DOMAIN products \ {pk} |-> products[p] ]
                       ELSE products
        /\ wishlists' = IF denied = 0
                        THEN [ w \in DOMAIN wishlists |->
                                 [wishlists[w] EXCEPT !.products = @ \ {pk}] ]
                        ELSE wishlists
        /\ last' = WResponse("destroy", a, [pk |-> pk],
                             IF denied = 0 THEN HTTP_204_NO_CONTENT ELSE denied,
                             <<>>)
        /\ UNCHANGED <<seq, links, cvars>>

\* POST /products/<pk>/upload-image/: the image is no part of the rows here.
upload_image(a, pk) ==
    LET denied == product_object("POST", a, pk, products)
    IN  Answer("upload_image", a, [pk |-> pk],
               IF denied = 0 THEN HTTP_200_OK ELSE denied, <<>>)

\* reserve (value = TRUE) and unreserve (value = FALSE) on product table ps:
\* the status and the table after it.  The permission classes of the two
\* actions are [PublicReservePermission]; the handler reads product.wishlist
\* and wishlist.owner and stores product.is_reserved.
reserve(ps, action, a, pk, value) ==
    LET status ==
          IF ~PublicReservePermission(action, a) THEN Denied(a)
          ELSE IF QuerysetFails(a) THEN SERVER_ERROR
          ELSE IF pk \notin product_queryset(ps, a) THEN HTTP_404_NOT_FOUND
          ELSE IF ~hasattr(ps[pk], "wishlist") THEN SERVER_ERROR
          ELSE IF ~hasattr(ps[pk]["wishlist"], "owner") THEN SERVER_ERROR
          ELSE IF a = ps[pk]["wishlist"]["owner"] THEN HTTP_403_FORBIDDEN
          ELSE HTTP_200_OK
    IN  [ status |-> status,
          products |-> IF status = HTTP_200_OK
                       THEN [ps EXCEPT ![pk] =
                               save(setattr(ps[pk], "is_reserved", value),
                                    ProductFields)]
                       ELSE ps ]

\* POST /products/<pk>/reserve/ and POST /products/<pk>/unreserve/
Reserve(action, a, pk) ==
    LET r == reserve(products, action, a, pk, action = "reserve")
    IN  /\ Idle
        /\ served' = served + 1
        /\ old' = [wishlists |-> wishlists, products |-> products]
        /\ products' = r.products
        /\ last' = WResponse(action, a, [pk |-> pk], r.status, <<>>)
        /\ UNCHANGED <<wishlists, seq, links, cvars>>

ProductPks == 1..seq.product

\* Wishlist payloads with products: one product, two products, one product
\* and a blank title.
ProductPayloads ==
    { [title |-> 1, products |-> <<1>>], [title |-> 1, products |-> <<1, 2>>],
      [title |-> 0, products |-> <<1>>] }

NextProduct ==
    \/ WRespond
    \/ \E a \in Clients : \E payload \in ProductPayloads : WishlistCreate(a, payload)
    \/ \E a \in Clients : ProductList(a)
    \/ \E a \in Clients : \E pk \in ProductPks : ProductUpdate(a, pk, 2)
    \/ \E a \in Clients : \E pk \in ProductPks : ProductDestroy(a, pk)
    \/ \E a \in Clients : \E pk \in ProductPks : upload_image(a, pk)
    \/ \E a \in Clients : \E pk \in ProductPks :
           \E action \in {"reserve", "unreserve"} : Reserve(action, a, pk)

SpecProduct == Init /\ [][NextProduct]_vars

(***************************************************************************)
(* wishlist.views.MergeWishlistView                                        *)
(***************************************************************************)
\* The for loop of create() from entry i of local_wishlists on, on tables ws
\* and ps with sequences sq: the payload is validated and saved, and the
\* return statement in the body of the loop ends the request.  A loop that
\* runs out returns no response.
RECURSIVE merge_loop(_, _, _, _, _, _)
merge_loop(ws, ps, sq, user, local_wishlists, i) ==
    IF i > Len(local_wishlists)
    THEN [ status |-> SERVER_ERROR, data |-> <<>>,
           wishlists |-> ws, products |-> ps, seq |-> sq ]
    ELSE IF ~wishlist_is_valid(local_wishlists[i])
    THEN [ status |-> HTTP_400_BAD_REQUEST, data |-> <<>>,
           wishlists |-> ws, products |-> ps, seq |-> sq ]
    ELSE LET made == wishlist_create(ws, ps, sq, user, local_wishlists[i])
         IN  [ status |-> HTTP_201_CREATED,
               data |-> wishlist_data(made[1], made[2], sq.wishlist),
               wishlists |-> made[1], products |-> made[2], seq |-> made[3] ]

\* A faulty variant of merge_loop: every entry is saved and the response,
\* sent after the loop, is that of the last one.
RECURSIVE merge_loop_all(_, _, _, _, _, _)
merge_loop_all(ws, ps, sq, user, local_wishlists, i) ==
    IF i > Len(local_wishlists)
    THEN [ status |-> SERVER_ERROR, data |-> <<>>,
           wishlists |-> ws, products |-> ps, seq |-> sq ]
    ELSE IF ~wishlist_is_valid(local_wishlists[i])
    THEN [ status |-> HTTP_400_BAD_REQUEST, data |-> <<>>,
           wishlists |-> ws, products |-> ps, seq |-> sq ]
    ELSE LET made == wishlist_create(ws, ps, sq, user, local_wishlists[i])
         IN  IF i = Len(local_wishlists)
             THEN [ status |-> HTTP_201_CREATED,
                    data |-> wishlist_data(made[1], made[2], sq.wishlist),
                    wishlists |-> made[1], products |-> made[2],
                    seq |-> made[3] ]
             ELSE merge_loop_all(made[1], made[2], made[3], user,
                                 local_wishlists, i + 1)

merge_wishlists_all(ws, ps, sq, user, local_wishlists) ==
    merge_loop_all(ws, ps, sq, user, local_wishlists, 1)

\* The batch of create(): one entry after the other.
merge_wishlists(ws, ps, sq, user, local_wishlists) ==
    merge_loop(ws, ps, sq, user, local_wishlists, 1)

\* POST /merge-wishlist/ with body data
MergeWishlist(a, data) ==
    LET rejected == IF ~IsAuthenticated(a) THEN HTTP_401_UNAUTHORIZED
                    ELSE IF "wishList" \notin DOMAIN data
                            \/ data["wishList"] = <<>>
                         THEN HTTP_400_BAD_REQUEST
                    ELSE 0
        r == merge_wishlists(wishlists, products, seq, a, data["wishList"])
    IN  IF rejected # 0
        THEN Answer("merge", a, [data |-> data], rejected, <<>>)
        ELSE /\ Serve(r.wishlists, r.products, r.seq)
             /\ last' = WResponse("merge", a, [data |-> data], r.status, r.data)
             /\ UNCHANGED links

\* The wishlists a browser holds: with one product, with two, with a product
\* twice, and one with a blank title.
LocalWishlists ==
    { [title |-> 1, products |-> <<1>>], [title |-> 1, products |-> <<2, 1>>],
      [title |-> 1, products |-> <<2, 2>>], [title |-> 0, products |-> <<>>] }

\* Bodies of a merge request: no wishList key, an empty batch, a batch of one
\* and a batch of two.
MergeBodies ==
    { NoData, [wishList |-> <<>>] }
    \cup { [wishList |-> <<x>>] : x \in LocalWishlists }
    \cup { [wishList |-> <<x, y>>] : x \in LocalWishlists, y \in LocalWishlists }

NextMerge ==
    \/ WRespond
    \/ \E a \in Clients : \E payload \in ProductPayloads : WishlistCreate(a, payload)
    \/ \E a \in Clients : \E data \in MergeBodies : MergeWishlist(a, data)

SpecMerge == Init /\ [][NextMerge]_vars

(***************************************************************************)
(* blog.serializers.TagSerializer and PostSerializer                       *)
(***************************************************************************)
\* TagSerializer.is_valid: the name is required and not blank.
tag_is_valid(data) == "name" \in DOMAIN data /\ data["name"] # 0

\* PostSerializer.is_valid: title, body and image are optional, owner and
\* comments are read only, and every tag of the payload is a valid tag.
post_is_valid(data) ==
    "tags" \in DOMAIN data
    => \A i \in 1..Len(data["tags"]) : tag_is_valid([name |-> data["tags"][i]])

\* TagSerializer / PostSerializer output of stored rows.
tag_data(ts, t) == [ id |-> t, name |-> ts[t].name ]

post_data(ps, ts, cs, p) ==
    LET items == by_pk(ps[p].tags)
    IN  [ id |-> p, title |-> ps[p].title, owner |-> ps[p].owner,
          tags |-> [ i \in 1..Len(items) |-> tag_data(ts, items[i]) ],
          comments |-> by_pk({ c \in DOMAIN cs : cs[c].post = p }) ]

\* PostSerializer._get_or_create_tags: the tag table and the tags added to
\* the post after get_or_create(user=auth_user, **tag) and post.tags.add() for
\* the first n entries of names.  <<tag table, next tag id, tags added>>
RECURSIVE _get_or_create_tags(_, _, _, _, _)
_get_or_create_tags(ts, next, auth_user, names, n) ==
    IF n = 0 THEN <<ts, next, {}>>
    ELSE LET prev == _get_or_create_tags(ts, next, auth_user, names, n - 1)
             found == { t \in DOMAIN prev[1] :
                          /\ prev[1][t].user = auth_user
                          /\ prev[1][t].name = names[n] }
         IN  IF found # {}
             THEN <<prev[1], prev[2], prev[3] \cup {CHOOSE t \in found : TRUE}>>
             ELSE << [ t \in DOMAIN prev[1] \cup {prev[2]} |->
                         IF t = prev[2]
                         THEN [ user |-> auth_user, name |-> names[n] ]
                         ELSE prev[1][t] ],
                     prev[2] + 1,
                     prev[3] \cup {prev[2]} >>

\* PostSerializer.create with the owner the view passes to save():
\* <<post table, tag table, sequences>>
post_create(ps, ts, sq, owner, data) ==
    LET names == IF "tags" \in DOMAIN data THEN data["tags"] ELSE <<>>
        got == _get_or_create_tags(ts, sq.tag, owner, names, Len(names))
        row == [ owner |-> owner, title |-> Get(data, "title"), tags |-> got[3] ]
    IN  << [ p \in DOMAIN ps \cup {sq.post} |->
               IF p = sq.post THEN row ELSE ps[p] ],
           got[1],
           [ post |-> sq.post + 1, tag |-> got[2] ] >>

\* PostSerializer.update by auth_user: an empty tags list clears the tags of
\* the post, a list with tags adds them; title is set when the payload has it.
\* <<post table, tag table, sequences>>
post_update(ps, ts, sq, pk, auth_user, data) ==
    LET given == "tags" \in DOMAIN data
        names == IF given THEN data["tags"] ELSE <<>>
        got == _get_or_create_tags(ts, sq.tag, auth_user, names, Len(names))
        kept == IF given /\ Len(names) = 0 THEN {} ELSE ps[pk].tags
        row == [ owner |-> ps[pk].owner,
                 title |-> IF "title" \in DOMAIN data THEN data["title"]
                           ELSE ps[pk].title,
                 tags |-> kept \cup got[3] ]
    IN  << [ps EXCEPT ![pk] = row], got[1], [sq EXCEPT !.tag = got[2]] >>

(***************************************************************************)
(* blog.views: PostListCreateView, PostDetailView, TagListView,            *)
(* TagDetailView                                                           *)
(***************************************************************************)
\* What every post and tag handler does besides its own work: cs is the
\* Comment table it leaves.
BlogServe(ps, ts, sq, cs) ==
    /\ Idle
    /\ served' = served + 1
    /\ was' = [posts |-> posts, tags |-> tags, users |-> users]
    /\ before' = comments
    /\ posts' = ps
    /\ tags' = ts
    /\ bseq' = sq
    /\ comments' = cs
    /\ removed' = [ c \in DOMAIN removed \cup (DOMAIN comments \ DOMAIN cs) |->
                      IF c \in DOMAIN comments \ DOMAIN cs THEN comments[c]
                      ELSE removed[c] ]
    /\ UNCHANGED <<nextId, inflight, users, wvars>>

\* A post or tag request that changes nothing.
BlogAnswer(op, a, args, status, data) ==
    /\ BlogServe(posts, tags, bseq, comments)
    /\ last' = WResponse(op, a, args, status, data)

\* A faulty variant of the next lookup: the permission of the view is not
\* checked.
admin_object_unchecked(method, a, pk, rows) ==
    IF pk \notin DOMAIN rows THEN HTTP_404_NOT_FOUND ELSE 0

\* check_permissions() and get_object() of a view with permission_classes =
\* [IsAdminOrReadOnly] on table rows: 0 when the request may go on.
admin_object(method, a, pk, rows) ==
    IF ~IsAdminOrReadOnly(method, a) THEN Denied(a)
    ELSE IF pk \notin DOMAIN rows THEN HTTP_404_NOT_FOUND
    ELSE 0

\* Meta.ordering = ("-created_at",) of Post: newest first.
RECURSIVE newest_first(_)
newest_first(S) ==
    IF S = {} THEN <<>>
    ELSE LET m == CHOOSE x \in S : \A y \in S : x >= y
         IN  <<m>> \o newest_first(S \ {m})

\* GET /posts/
PostList(a) ==
    LET rows == newest_first(DOMAIN posts)
    IN  BlogAnswer("post_list", a, [pk |-> NULL], HTTP_200_OK,
                   [ i \in 1..Len(rows) |-> post_data(posts, tags, comments, rows[i]) ])

\* POST /posts/ (CreateModelMixin.create, perform_create)
PostCreate(a, data) ==
    LET status == IF ~IsAdminOrReadOnly("POST", a) THEN Denied(a)
                  ELSE IF ~post_is_valid(data) THEN HTTP_400_BAD_REQUEST
                  ELSE HTTP_201_CREATED
        made == post_create(posts, tags, bseq, a, data)
    IN  IF status = HTTP_201_CREATED
        THEN /\ BlogServe(made[1], made[2], made[3], comments)
             /\ last' = WResponse("post_create", a, [pk |-> bseq.post, data |-> data],
                                  status, post_data(made[1], made[2], comments, bseq.post))
        ELSE BlogAnswer("post_create", a, [pk |-> NULL, data |-> data], status, <<>>)

\* GET /posts/<pk>/
PostRetrieve(a, pk) ==
    LET denied == admin_object("GET", a, pk, posts)
    IN  BlogAnswer("post_retrieve", a, [pk |-> pk],
                   IF denied = 0 THEN HTTP_200_OK ELSE denied,
                   IF denied = 0 THEN post_data(posts, tags, comments, pk) ELSE <<>>)

\* PATCH /posts/<pk>/ (UpdateModelMixin)
PostUpdate(a, pk, data) ==
    LET denied == admin_object("PATCH", a, pk, posts)
        status == IF denied # 0 THEN denied
                  ELSE IF ~post_is_valid(data) THEN HTTP_400_BAD_REQUEST
                  ELSE HTTP_200_OK
        made == post_update(posts, tags, bseq, pk, a, data)
    IN  IF status = HTTP_200_OK
        THEN /\ BlogServe(made[1], made[2], made[3], comments)
             /\ last' = WResponse("post_update", a, [pk |-> pk, data |-> data],
                                  status, post_data(made[1], made[2], comments, pk))
        ELSE BlogAnswer("post_update", a, [pk |-> pk, data |-> data], status, <<>>)

\* A faulty variant of the next cascade: the comments of the post stay.
post_keep_comments(cs, pk) == cs

\* The Comment table after the post pk is deleted: on_delete=CASCADE of
\* Comment.post takes the comments of the post, and on_delete=CASCADE of
\* Comment.parent_comment takes the comments under them.
post_cascade(cs, pk) ==
    LET gone == Collect(cs, { c \in DOMAIN cs : cs[c].post = pk }, {})
    IN  [ c \in DOMAIN cs \ gone |-> cs[c] ]

\* DELETE /posts/<pk>/ (DestroyModelMixin)
PostDestroy(a, pk) ==
    LET denied == admin_object("DELETE", a, pk, posts)
    IN  IF denied = 0
        THEN /\ BlogServe([ p \in DOMAIN posts \ {pk} |-> posts[p] ], tags, bseq,
                          post_cascade(comments, pk))
             /\ last' = WResponse("post_destroy", a, [pk |-> pk],
                                  HTTP_204_NO_CONTENT, <<>>)
        ELSE BlogAnswer("post_destroy", a, [pk |-> pk], denied, <<>>)

\* GET /tags/
TagList(a) ==
    LET rows == by_pk(DOMAIN tags)
    IN  BlogAnswer("tag_list", a, [pk |-> NULL], HTTP_200_OK,
                   [ i \in 1..Len(rows) |-> tag_data(tags, rows[i]) ])

\* POST /tags/: TagListView is a ListAPIView, which has no post handler; the
\* permissions are checked before the method is looked up.
TagCreate(a, data) ==
    BlogAnswer("tag_create", a, [pk |-> NULL, data |-> data],
               IF ~IsAdminOrReadOnly("POST", a) THEN Denied(a)
               ELSE HTTP_405_METHOD_NOT_ALLOWED,
               <<>>)

\* GET /tags/<pk>/
TagRetrieve(a, pk) ==
    LET denied == admin_object("GET", a, pk, tags)
    IN  BlogAnswer("tag_retrieve", a, [pk |-> pk],
                   IF denied = 0 THEN HTTP_200_OK ELSE denied,
                   IF denied = 0 THEN tag_data(tags, pk) ELSE <<>>)

\* PATCH /tags/<pk>/ (UpdateModelMixin)
TagUpdate(a, pk, data) ==
    LET denied == admin_object("PATCH", a, pk, tags)
        status == IF denied # 0 THEN denied
                  ELSE IF "name" \in DOMAIN data /\ ~tag_is_valid(data)
                       THEN HTTP_400_BAD_REQUEST
                  ELSE HTTP_200_OK
    IN  IF status = HTTP_200_OK
        THEN /\ BlogServe(posts,
                          [tags EXCEPT ![pk].name = Get(data, "name")],
                          bseq, comments)
             /\ last' = WResponse("tag_update", a, [pk |-> pk, data |-> data],
                                  status, <<>>)
        ELSE BlogAnswer("tag_update", a, [pk |-> pk, data |-> data], status, <<>>)

\* DELETE /tags/<pk>/ (DestroyModelMixin): the row goes, and with it its
\* place in every post.
TagDestroy(a, pk) ==
    LET denied == admin_object("DELETE", a, pk, tags)
    IN  IF denied = 0
        THEN /\ BlogServe([ p \in DOMAIN posts |->
                              [posts[p] EXCEPT !.tags = @ \ {pk}] ],
                          [ t \in DOMAIN tags \ {pk} |-> tags[t] ],
                          bseq, comments)
             /\ last' = WResponse("tag_destroy", a, [pk |-> pk],
                                  HTTP_204_NO_CONTENT, <<>>)
        ELSE BlogAnswer("tag_destroy", a, [pk |-> pk], denied, <<>>)

\* The primary keys a client may name: those handed out, and one more.
PostPks == 1..bseq.post
TagPks == 1..bseq.tag

\* Tag names; 0 is the blank name.
TagNames == {0, 1}

\* Post payloads: a title, a title with a tag, a title with a blank tag.
PostPayloads ==
    { [title |-> 1] } \cup { [title |-> 1, tags |-> <<n>>] : n \in TagNames }

\* PATCH payloads of a post: a new title, no tags, one more tag.
PostUpdates ==
    { [title |-> 2], [tags |-> <<>>], [tags |-> <<1>>] }

\* Comments and replies on the posts.
BlogComments ==
    { Dict(<<1>>, <<p>>, c) : p \in PostInputs, c \in Optional(Pks) }

\* PATCH payloads that move a comment to a post or under a comment.
BlogMoves ==
    { Dict(<<>>, <<p>>, <<>>) : p \in PostInputs }
    \cup { Dict(<<>>, <<>>, <<c>>) : c \in {NULL} \cup Pks }

NextBlog ==
    \/ Respond
    \/ \E a \in Clients : PostList(a)
    \/ \E a \in Clients : \E data \in PostPayloads : PostCreate(a, data)
    \/ \E a \in Clients : \E pk \in PostPks : PostRetrieve(a, pk)
    \/ \E a \in Clients : \E pk \in PostPks :
           \E data \in PostUpdates : PostUpdate(a, pk, data)
    \/ \E a \in Clients : \E pk \in PostPks : PostDestroy(a, pk)
    \/ \E a \in Clients : TagList(a)
    \/ \E a \in Clients : \E n \in TagNames : TagCreate(a, [name |-> n])
    \/ \E a \in Clients : \E pk \in TagPks : TagRetrieve(a, pk)
    \/ \E a \in Clients : \E pk \in TagPks :
           \E n \in TagNames : TagUpdate(a, pk, [name |-> n])
    \/ \E a \in Clients : \E pk \in TagPks : TagDestroy(a, pk)
    \/ \E a \in Clients : \E data \in BlogComments : CommentCreate(a, data)
    \/ \E a \in Clients : \E pk \in Pks :
           \E data \in BlogMoves : CommentUpdate(a, pk, data, TRUE)
    \/ \E a \in Clients : \E pk \in Pks : CommentDestroy(a, pk)

SpecBlog == Init /\ [][NextBlog]_vars

(***************************************************************************)
(* user.views: SoftDeleteUserView, ManageUserView, LogoutView,             *)
(* CreateTokenView                                                         *)
(***************************************************************************)
\* TokenAuthentication: the client sends the key of the token of user a, or
\* none (a = 0).  A key that names no token, or the token of a user who is not
\* active, raises AuthenticationFailed.
authenticate_credentials(us, a) ==
    a \in DOMAIN us /\ us[a].token /\ us[a].is_active

\* request.user as the views behind TokenAuthentication see it; a request
\* that fails authentication is answered 401 as an anonymous request to a
\* view with permission_classes = [IsAuthenticated] is.
request_user(us, a) == IF authenticate_credentials(us, a) THEN a ELSE 0

\* What every user handler does besides its own work: us is the User table
\* it leaves.
UserServe(us) ==
    /\ Idle
    /\ served' = served + 1
    /\ was' = [posts |-> posts, tags |-> tags, users |-> users]
    /\ old' = [wishlists |-> wishlists, products |-> products]
    /\ before' = comments
    /\ users' = us
    /\ UNCHANGED <<comments, nextId, inflight, removed, posts, tags, bseq,
                   wishlists, products, seq, links>>

\* A faulty variant of the next method: the row of the user is deleted.
perform_destroy_hard(us, instance) ==
    [ u \in DOMAIN us \ {instance} |-> us[u] ]

\* SoftDeleteUserView.perform_destroy: instance.is_active = False; save()
perform_destroy(us, instance) ==
    [us EXCEPT ![instance].is_active = FALSE]

\* DELETE /user/delete-user/ (DestroyModelMixin.destroy answers 204)
SoftDeleteUser(a) ==
    IF authenticate_credentials(users, a)
    THEN /\ UserServe(perform_destroy(users, a))
         /\ last' = WResponse("delete_user", a, [k \in {} |-> 0],
                              HTTP_204_NO_CONTENT, <<>>)
    ELSE /\ UserServe(users)
         /\ last' = WResponse("delete_user", a, [k \in {} |-> 0],
                              HTTP_401_UNAUTHORIZED, <<>>)

\* PATCH /user/me/ with a first name (UserSerializer.update); the first name
\* may not be blank.
ManageUser(a, first_name) ==
    LET status == IF ~authenticate_credentials(users, a) THEN HTTP_401_UNAUTHORIZED
                  ELSE IF first_name = 0 THEN HTTP_400_BAD_REQUEST
                  ELSE HTTP_200_OK
    IN  /\ UserServe(IF status = HTTP_200_OK
                     THEN [users EXCEPT ![a].first_name = first_name]
                     ELSE users)
        /\ last' = WResponse("me", a, [first_name |-> first_name], status, <<>>)

\* POST /user/token/logout/: request.user.auth_token.delete()
Logout(a) ==
    LET ok == authenticate_credentials(users, a)
    IN  /\ UserServe(IF ok THEN [users EXCEPT ![a].token = FALSE] ELSE users)
        /\ last' = WResponse("logout", a, [k \in {} |-> 0],
                             IF ok THEN HTTP_204_NO_CONTENT
                             ELSE HTTP_401_UNAUTHORIZED, <<>>)

\* POST /user/token/ with the credentials of user u, or with credentials of
\* nobody (u = 0): authenticate() returns no user for a user who is not
\* active; Token.objects.get_or_create(user=user) otherwise.
CreateToken(u) ==
    LET ok == u \in DOMAIN users /\ users[u].is_active
    IN  /\ UserServe(IF ok THEN [users EXCEPT ![u].token = TRUE] ELSE users)
        /\ last' = WResponse("token", u, [k \in {} |-> 0],
                             IF ok THEN HTTP_200_OK ELSE HTTP_400_BAD_REQUEST,
                             <<>>)

\* First names a client sends; 0 is the blank name.
FirstNames == {0, 2}

NextUser ==
    \/ WRespond
    \/ \E a \in Clients : SoftDeleteUser(a)
    \/ \E a \in Clients : \E n \in FirstNames : ManageUser(a, n)
    \/ \E a \in Clients : Logout(a)
    \/ \E a \in Clients : CreateToken(a)
    \/ \E a \in Clients : \E payload \in PlainPayloads :
           WishlistCreate(request_user(users, a), payload)
    \/ \E a \in Clients : \E pk \in WishlistPks :
           WishlistDestroy(request_user(users, a), pk)

SpecUser == Init /\ [][NextUser]_vars

(***************************************************************************)
(* Properties                                                              *)
(***************************************************************************)
\* The row the request in r created, as the request describes it.
Created(r) ==
    [ body |-> r.body, post |-> r.post, parent_comment |-> r.parent_comment,
      owner |-> r.actor ]

\* Store cs with exactly one more row, row id, holding row.
Added(cs, id, row) ==
    [ c \in DOMAIN cs \cup {id} |-> IF c = id THEN row ELSE cs[c] ]

\* Comment p is a top-level comment of store cs that has no reply.
OpenParent(cs, p) ==
    p \in DOMAIN cs /\ cs[p].parent_comment = NULL /\ replies(cs, p) = {}

\* C1: every comment with a parent has a parent that is a top-level comment
\* (no reply to a reply), in every state that create, update and delete
\* requests reach.
C1_ReplyDepth ==
    \A c \in DOMAIN comments :
        LET p == comments[c].parent_comment
        IN  p # NULL => p \in DOMAIN comments /\ comments[p].parent_comment = NULL

\* C2: every comment is the parent of at most one comment, in every state that
\* requests served one after the other reach.
C2_OneReply ==
    \A c \in DOMAIN comments : Cardinality(replies(comments, c)) <= 1

\* C3: two staff users whose replies to the same top-level comment overlap
\* never both get 201.
C3_OneRacingReplySucceeds ==
    \A v, w \in Workers :
        LET r == inflight[v].r
            q == inflight[w].r
        IN  ~ ( /\ v # w
                /\ inflight[v].pc = "done" /\ inflight[w].pc = "done"
                /\ r.op = "create" /\ q.op = "create"
                /\ r.actor \in Staff /\ q.actor \in Staff /\ r.actor # q.actor
                /\ r.parent_comment # NULL
                /\ r.parent_comment = q.parent_comment
                /\ r.status = HTTP_201_CREATED /\ q.status = HTTP_201_CREATED )

\* C4: a well-formed reply to a top-level comment that has no reply, sent by an
\* authenticated user, gets 403 and creates nothing when the user is not
\* staff, and gets 201 and creates the reply, owned by the user, when the user
\* is staff.
C4_ReplyNeedsStaff ==
    ( /\ last.op = "create"
      /\ last.actor \in Users
      /\ last.body # 0 /\ last.post \in Posts
      /\ OpenParent(before, last.parent_comment) )
    => IF last.actor \in Staff
       THEN /\ last.status = HTTP_201_CREATED
            /\ last.pk \notin DOMAIN before
            /\ comments = Added(before, last.pk, Created(last))
       ELSE /\ last.status = HTTP_403_FORBIDDEN
            /\ comments = before

\* C4 witness: a regular user's reply to a top-level comment without a reply
\* was refused with 403.
C4_Witness ==
    /\ last.op = "create" /\ last.status = HTTP_403_FORBIDDEN
    /\ last.actor \in Users \ Staff
    /\ OpenParent(before, last.parent_comment)

\* C5: a reply whose parent_comment names no comment, or a comment of another
\* post than the one supplied, gets 404 and creates nothing.
C5_ParentNotFound ==
    ( /\ last.op = "create"
      /\ last.actor \in Users
      /\ last.body # 0 /\ last.post \in Posts
      /\ last.parent_comment # NULL
      /\ \/ last.parent_comment \notin DOMAIN before
         \/ before[last.parent_comment].post # last.post )
    => /\ last.status = HTTP_404_NOT_FOUND
       /\ comments = before

\* C6: every reply belongs to the post of its parent comment, in every state
\* that create and update requests reach.
C6_SamePost ==
    \A c \in DOMAIN comments :
        LET p == comments[c].parent_comment
        IN  p # NULL /\ p \in DOMAIN comments => comments[c].post = comments[p].post

\* C7: a well-formed comment without parent_comment on an existing post gets
\* 201 from every authenticated user, staff or not, and creates a top-level
\* comment owned by the requester; from an anonymous requester it gets 401 and
\* creates nothing.
C7_TopLevelComment ==
    ( /\ last.op = "create"
      /\ last.parent_comment = NULL
      /\ last.body # 0 /\ last.post \in Posts )
    => IF last.actor \in Users
       THEN /\ last.status = HTTP_201_CREATED
            /\ last.pk \notin DOMAIN before
            /\ comments = Added(before, last.pk, Created(last))
            /\ comments[last.pk].parent_comment = NULL
            /\ comments[last.pk].owner = last.actor
       ELSE /\ last.status = HTTP_401_UNAUTHORIZED
            /\ comments = before

\* C7 witness: a regular user has created a top-level comment.
C7_Witness ==
    /\ last.op = "create" /\ last.status = HTTP_201_CREATED
    /\ last.actor \in Users \ Staff
    /\ last.pk \in DOMAIN comments \ DOMAIN before
    /\ comments[last.pk].parent_comment = NULL
    /\ comments[last.pk].owner = last.actor

\* What a listing says: the ids at its top level, and the ids in the replies
\* field of its i-th comment.
TopLevelIds(data) == { data[i].id : i \in 1..Len(data) }
ReplyIds(item) == { item.replies[i].id : i \in 1..Len(item.replies) }

\* C8: the listing returns exactly the comments without parent; the replies
\* field of each holds exactly the comments whose parent it is, and has at
\* most one element.
C8_Listing ==
    [][ \A w \in Workers :
          ( /\ inflight[w].pc = "idle"
            /\ inflight'[w].pc = "done"
            /\ inflight'[w].r.op = "list" )
          => LET data == inflight'[w].r.data
             IN  /\ TopLevelIds(data) =
                       { c \in DOMAIN comments : comments[c].parent_comment = NULL }
                 /\ Len(data) = Cardinality(TopLevelIds(data))
                 /\ \A i \in 1..Len(data) :
                       /\ ReplyIds(data[i]) = replies(comments, data[i].id)
                       /\ Len(data[i].replies) <= 1 ]_vars

\* C9: no request changes the parent_comment of a comment that exists.
C9_RoleFixed ==
    \A c \in DOMAIN before \cap DOMAIN comments :
        comments[c].parent_comment = before[c].parent_comment

C11_OwnerKept ==
    \A c \in DOMAIN before \cap DOMAIN comments :
        comments[c].owner = before[c].owner

\* C11 witness: the owner of a comment sent an update naming another user as
\* owner, the update was accepted, and the comment is still the requester's.
C11_Witness ==
    /\ last.op = "update" /\ last.status = HTTP_200_OK
    /\ last.data # <<>>
    /\ last.pk \in DOMAIN comments
    /\ last.data[1] # last.actor
    /\ comments[last.pk].owner = last.actor

\* Wishlist w of table ws is public.
is_public(ws, w) == hasattr(ws[w], "is_public") /\ ws[w]["is_public"]

\* The wishlists a request of user a with ids resolves in table ws.
Resolved(ws, a, ids) == { w \in DOMAIN ws : w \in ids /\ ws[w].user = a }

\* C12: generate_share_link by an authenticated user with a list of ids
\* resolves the wishlists of the user among the ids; with none it answers 404
\* and changes nothing; otherwise it answers 200, every resolved wishlist is
\* public afterwards, every other wishlist is as before, and the link lists
\* exactly the resolved ids.
C12_GenerateShareLink ==
    ( /\ last.op = "generate_share_link"
      /\ last.actor \in Users
      /\ last.args.ids # {} )
    => LET resolved == Resolved(old.wishlists, last.actor, last.args.ids)
       IN  IF resolved = {}
           THEN /\ last.status = HTTP_404_NOT_FOUND
                /\ wishlists = old.wishlists
           ELSE /\ last.status = HTTP_200_OK
                /\ DOMAIN wishlists = DOMAIN old.wishlists
                /\ \A w \in resolved : is_public(wishlists, w)
                /\ \A w \in DOMAIN wishlists \ resolved :
                       wishlists[w] = old.wishlists[w]
                /\ last.data.uuid = uuid(last.actor)
                /\ Range(last.data.ids) = resolved

\* C13: after a successful generate_share_link, the same call again leaves the
\* store as it is and returns a link with the same ids, and every wishlist it
\* names is public.
C13_GenerateIdempotent ==
    ( /\ last.op = "generate_share_link"
      /\ last.status = HTTP_200_OK )
    => LET again == generate_share_link(wishlists, last.actor, last.args.ids)
       IN  /\ again.status = HTTP_200_OK
           /\ again.wishlists = wishlists
           /\ Range(again.data.ids) = Range(last.data.ids)
           /\ \A w \in Range(last.data.ids) : is_public(wishlists, w)

\* C14: a view_shared request that matches at least one wishlist that is not
\* public gets 400 and no wishlist data; no view_shared response holds a
\* wishlist that is not public.
C14_AllOrNothing ==
    last.op = "view_shared_wishlist" /\ last.actor \in Users
    => LET found == { w \in DOMAIN old.wishlists :
                        /\ w \in Range(last.args.ids)
                        /\ uuid(old.wishlists[w].user) = last.args.uuid }
       IN  /\ (\E w \in found : ~is_public(old.wishlists, w))
               => last.status = HTTP_400_BAD_REQUEST /\ last.data = <<>>
           /\ \A i \in 1..Len(last.data) :
                  is_public(old.wishlists, last.data[i].id)

\* C15: a view_shared request with a link that generate_share_link handed
\* out, none of whose wishlists was deleted, is answered 200 with exactly the
\* wishlists of the link, whoever asks.
C15_ShareRoundTrip ==
    ( /\ last.op = "view_shared_wishlist"
      /\ [uuid |-> last.args.uuid, ids |-> last.args.ids] \in links
      /\ Range(last.args.ids) \subseteq DOMAIN old.wishlists )
    => /\ last.status = HTTP_200_OK
       /\ { last.data[i].id : i \in 1..Len(last.data) } = Range(last.args.ids)

\* Product p of table ps is reserved.
is_reserved(ps, p) == hasattr(ps[p], "is_reserved") /\ ps[p]["is_reserved"]

\* User a owns a wishlist of table ws that holds product p.
OwnsWishlistOf(ws, a, p) ==
    \E w \in DOMAIN ws : p \in ws[w].products /\ ws[w].user = a

\* Product p is in a wishlist of table ws.
Assigned(ws, p) == \E w \in DOMAIN ws : p \in ws[w].products

\* C16: reserve and unreserve by the owner of the wishlist that holds the
\* product get 403 and leave the product as it was.
C16_OwnerCannotReserve ==
    ( /\ last.op \in {"reserve", "unreserve"}
      /\ last.args.pk \in DOMAIN old.products
      /\ OwnsWishlistOf(old.wishlists, last.actor, last.args.pk) )
    => /\ last.status = HTTP_403_FORBIDDEN
       /\ products = old.products

\* C17: reserve by an actor who does not own the wishlist of the product
\* gets 200 and leaves the product reserved; unreserve gets 200 and leaves it
\* not reserved; whatever the product was before.
C17_OthersReserve ==
    ( /\ last.op \in {"reserve", "unreserve"}
      /\ last.args.pk \in DOMAIN old.products
      /\ Assigned(old.wishlists, last.args.pk)
      /\ ~OwnsWishlistOf(old.wishlists, last.actor, last.args.pk) )
    => /\ last.status = HTTP_200_OK
       /\ last.args.pk \in DOMAIN products
       /\ is_reserved(products, last.args.pk) = (last.op = "reserve")

\* C18: an anonymous reserve or unreserve of an existing product is not
\* refused for want of credentials; every other product request of an
\* anonymous requester gets 401; an update or delete by an authenticated user
\* who does not own the product gets 404 and leaves the product there, with
\* its user.
C18_AnonymousProductAccess ==
    /\ ( /\ last.op \in {"reserve", "unreserve"}
         /\ last.actor \notin Users
         /\ last.args.pk \in DOMAIN old.products )
       => last.status \notin {HTTP_401_UNAUTHORIZED, HTTP_403_FORBIDDEN}
    /\ ( /\ last.op \in {"list", "update", "destroy", "upload_image"}
         /\ last.actor \notin Users )
       => last.status = HTTP_401_UNAUTHORIZED
    /\ ( /\ last.op \in {"update", "destroy"}
         /\ last.actor \in Users
         /\ last.args.pk \in DOMAIN old.products
         /\ old.products[last.args.pk].user # last.actor )
       => /\ last.status = HTTP_404_NOT_FOUND
          /\ last.args.pk \in DOMAIN products
          /\ products[last.args.pk].user = old.products[last.args.pk].user

\* The wishlists and products a request added.
NewWishlists == DOMAIN wishlists \ DOMAIN old.wishlists
NewProducts == DOMAIN products \ DOMAIN old.products

\* The names of the products of wishlist w.
ProductNames(w) == { products[p].name : p \in wishlists[w].products }

\* C19: a merge of N >= 1 valid payloads by an authenticated user stores N
\* new wishlists, one per payload, all of the user, each with the products of
\* its payload; a product of the user with the same attributes is used again
\* and not stored twice, and no product of another user is attached.
C19_MergePersistsAll ==
    ( /\ last.op = "merge"
      /\ last.actor \in Users
      /\ "wishList" \in DOMAIN last.args.data
      /\ last.args.data["wishList"] # <<>>
      /\ \A i \in 1..Len(last.args.data["wishList"]) :
             wishlist_is_valid(last.args.data["wishList"][i]) )
    => LET batch == last.args.data["wishList"]
           new == by_pk(NewWishlists)
       IN  /\ last.status = HTTP_201_CREATED
           /\ Len(new) = Len(batch)
           /\ \A i \in 1..Len(new) :
                  /\ wishlists[new[i]].user = last.actor
                  /\ ProductNames(new[i]) = Range(batch[i].products)
                  /\ \A p \in wishlists[new[i]].products :
                         products[p].user = last.actor
           /\ \A p \in NewProducts :
                  /\ products[p].user = last.actor
                  /\ ~ \E q \in DOMAIN products \ {p} :
                         /\ products[q].user = products[p].user
                         /\ products[q].name = products[p].name

\* C20: a merge by an authenticated user whose first payload is valid gets
\* 201 and the representation of the first wishlist of the batch, whatever
\* the size of the batch; a merge without a batch or with an empty one gets
\* 400 and stores nothing.
C20_MergeReturnsFirst ==
    ( /\ last.op = "merge"
      /\ last.actor \in Users )
    => LET data == last.args.data
       IN  IF "wishList" \notin DOMAIN data \/ data["wishList"] = <<>>
           THEN /\ last.status = HTTP_400_BAD_REQUEST
                /\ wishlists = old.wishlists
                /\ products = old.products
           ELSE wishlist_is_valid(data["wishList"][1])
                => /\ last.status = HTTP_201_CREATED
                   /\ last.data.id = seq.wishlist - Cardinality(NewWishlists)
                   /\ last.data.id \in NewWishlists
                   /\ last.data.title = data["wishList"][1].title
                   /\ { last.data.products[i].name :
                          i \in 1..Len(last.data.products) }
                        = Range(data["wishList"][1].products)

\* C20 witness: a batch of two different wishlists was merged and the
\* response holds the first of them.
C20_Witness ==
    /\ last.op = "merge" /\ last.status = HTTP_201_CREATED
    /\ Len(last.args.data["wishList"]) = 2
    /\ last.args.data["wishList"][1].products # last.args.data["wishList"][2].products
    /\ { last.data.products[i].name : i \in 1..Len(last.data.products) }
         = Range(last.args.data["wishList"][1].products)

\* C23: a well-formed reply sent by a regular user to a comment of the same
\* post that is itself a reply, or that already has a reply, gets 400, not
\* 403, and creates nothing: the parent is looked at before the privilege.
C23_CheckOrder ==
    ( /\ last.op = "create"
      /\ last.actor \in Users \ Staff
      /\ last.body # 0 /\ last.post \in Posts
      /\ last.parent_comment \in DOMAIN before
      /\ before[last.parent_comment].post = last.post
      /\ \/ before[last.parent_comment].parent_comment # NULL
         \/ replies(before, last.parent_comment) # {} )
    => /\ last.status = HTTP_400_BAD_REQUEST
       /\ comments = before

\* C23 witness: a regular user's reply to a reply was refused with 400.
C23_Witness ==
    /\ last.op = "create" /\ last.status = HTTP_400_BAD_REQUEST
    /\ last.actor \in Users \ Staff
    /\ last.body # 0 /\ last.post \in Posts
    /\ last.parent_comment \in DOMAIN before
    /\ before[last.parent_comment].post = last.post
    /\ before[last.parent_comment].parent_comment # NULL
    /\ comments = before

\* C24: a create request that is rejected, whatever the rejection, leaves the
\* Comment table as it was; one that is answered 201 adds exactly one row and
\* changes no row that was there.
C24_NoPartialWrite ==
    last.op = "create"
    => IF last.status = HTTP_201_CREATED
       THEN /\ last.pk \notin DOMAIN before
            /\ DOMAIN comments = DOMAIN before \cup {last.pk}
            /\ \A c \in DOMAIN before : comments[c] = before[c]
       ELSE /\ last.status \in { HTTP_400_BAD_REQUEST, HTTP_401_UNAUTHORIZED,
                                 HTTP_403_FORBIDDEN, HTTP_404_NOT_FOUND }
            /\ comments = before

\* C24 witness: a reply was refused for the requester's lack of privilege,
\* the last of the checks, in a table that holds comments, and nothing was
\* written.
C24_Witness ==
    /\ last.op = "create" /\ last.status = HTTP_403_FORBIDDEN
    /\ last.parent_comment \in DOMAIN before
    /\ comments = before

\* The top-level comment p of table cs had a reply that a DELETE request took
\* out of the table, and has none now.
ReplyDeleted(cs, p) ==
    /\ OpenParent(cs, p)
    /\ replies(removed, p) # {}

\* C29: a well-formed reply by a staff user to a top-level comment of the same
\* post whose reply was deleted, and that has no reply now, gets 201, and the new comment is
\* then the one reply of its parent.
C29_DeletedReplyNotCounted ==
    ( /\ last.op = "create"
      /\ last.actor \in Staff
      /\ last.body # 0 /\ last.post \in Posts
      /\ ReplyDeleted(before, last.parent_comment)
      /\ before[last.parent_comment].post = last.post )
    => /\ last.status = HTTP_201_CREATED
       /\ last.pk \in DOMAIN comments \ DOMAIN before
       /\ replies(comments, last.parent_comment) = {last.pk}

\* C29 witness: the reply of a top-level comment was deleted by its owner and
\* a staff user's new reply to the same comment was answered 201.
C29_Witness ==
    /\ last.op = "create" /\ last.status = HTTP_201_CREATED
    /\ last.actor \in Staff
    /\ ReplyDeleted(before, last.parent_comment)
    /\ before[last.parent_comment].post = last.post
    /\ replies(comments, last.parent_comment) = {last.pk}

\* The wishlists of table ws that a view_shared request resolves: those named
\* in ids whose user has the uuid of the request.
Matching(ws, user_uuid, ids) ==
    { w \in DOMAIN ws : w \in Range(ids) /\ uuid(ws[w].user) = user_uuid }

\* C25: a view_shared request that matches no wishlist (unknown uuid, unknown
\* ids, or ids of another user) gets 404; one that matches some is either
\* refused as a whole with 400 or answered 200, and a 200 answer holds exactly
\* the matching wishlists, each without description and address.
C25_ViewSharedResolution ==
    last.op = "view_shared_wishlist"
    => LET found == Matching(old.wishlists, last.args.uuid, last.args.ids)
       IN  /\ found = {} => last.status = HTTP_404_NOT_FOUND /\ last.data = <<>>
           /\ found # {} => last.status \in {HTTP_200_OK, HTTP_400_BAD_REQUEST}
           /\ last.status = HTTP_200_OK
              => /\ { last.data[i].id : i \in 1..Len(last.data) } = found
                 /\ \A i \in 1..Len(last.data) :
                        DOMAIN last.data[i] \cap {"description", "address"} = {}

\* C26: a wishlist is not public when it is created; it becomes public with a
\* successful generate_share_link of its owner that names it, and only so;
\* a view_shared request that matches a wishlist that is not public is
\* rejected with a 4xx status and no data; a public wishlist stays public.
C26_VisibilityMonotone ==
    /\ \A w \in DOMAIN wishlists \ DOMAIN old.wishlists : ~is_public(wishlists, w)
    /\ \A w \in DOMAIN wishlists \cap DOMAIN old.wishlists :
           /\ is_public(old.wishlists, w) => is_public(wishlists, w)
           /\ ~is_public(old.wishlists, w) /\ is_public(wishlists, w)
              => /\ last.op = "generate_share_link"
                 /\ last.status = HTTP_200_OK
                 /\ last.actor = wishlists[w].user
                 /\ w \in last.args.ids
    /\ ( /\ last.op = "generate_share_link"
         /\ last.status = HTTP_200_OK )
       => \A w \in Resolved(old.wishlists, last.actor, last.args.ids) :
              is_public(wishlists, w)
    /\ ( /\ last.op = "view_shared_wishlist"
         /\ \E w \in Matching(old.wishlists, last.args.uuid, last.args.ids) :
                ~is_public(old.wishlists, w) )
       => /\ last.status \in { HTTP_400_BAD_REQUEST, HTTP_401_UNAUTHORIZED,
                               HTTP_403_FORBIDDEN, HTTP_404_NOT_FOUND }
          /\ last.data = <<>>

\* C27: a comment submission, generate_share_link, view_shared, reserve,
\* unreserve and merge are answered with a success status or with 400, 401,
\* 403 or 404, never with a server error.
C27_NoUnhandledFault ==
    ( \/ last.op = "create" /\ "parent_comment" \in DOMAIN last
      \/ last.op \in { "generate_share_link", "view_shared_wishlist",
                       "reserve", "unreserve", "merge" } )
    => last.status \in { HTTP_200_OK, HTTP_201_CREATED,
                         HTTP_400_BAD_REQUEST, HTTP_401_UNAUTHORIZED,
                         HTTP_403_FORBIDDEN, HTTP_404_NOT_FOUND }

\* C28: reserve and unreserve of an existing product leave every wishlist,
\* every other product and every other field of the product as they were, and
\* when the requester does not own the wishlist of the product, the product
\* is reserved after reserve and not reserved after unreserve.
C28_ReserveOnlyFlag ==
    ( /\ last.op \in {"reserve", "unreserve"}
      /\ last.args.pk \in DOMAIN old.products )
    => LET pk == last.args.pk
       IN  /\ wishlists = old.wishlists
           /\ DOMAIN products = DOMAIN old.products
           /\ \A p \in DOMAIN products \ {pk} : products[p] = old.products[p]
           /\ \A f \in DOMAIN old.products[pk] \ {"is_reserved"} :
                  f \in DOMAIN products[pk] /\ products[pk][f] = old.products[pk][f]
           /\ ( /\ Assigned(old.wishlists, pk)
                /\ ~OwnsWishlistOf(old.wishlists, last.actor, pk) )
              => is_reserved(products, pk) = (last.op = "reserve")

\* C30: in every state that post, tag and comment requests reach, the post of
\* every comment and the parent of every reply are rows that exist; a
\* deleted comment takes its replies with it, and a deleted post takes its
\* comments with it.
C30_ReferentialIntegrity ==
    /\ \A c \in DOMAIN comments :
           /\ comments[c].post \in Posts
           /\ comments[c].parent_comment # NULL
              => comments[c].parent_comment \in DOMAIN comments
    /\ ( last.op = "destroy" /\ last.status = HTTP_204_NO_CONTENT )
       => \A c \in DOMAIN before :
              c = last.pk \/ before[c].parent_comment = last.pk
              => c \notin DOMAIN comments
    /\ ( last.op = "post_destroy" /\ last.status = HTTP_204_NO_CONTENT )
       => /\ last.args.pk \notin Posts
          /\ \A c \in DOMAIN before :
                 before[c].post = last.args.pk => c \notin DOMAIN comments

\* C30 witness: a post with a top-level comment and its reply was deleted, and
\* both comments went with it.
C30_Witness ==
    /\ last.op = "post_destroy" /\ last.status = HTTP_204_NO_CONTENT
    /\ \E c, r \in DOMAIN before :
           /\ before[c].post = last.args.pk /\ before[c].parent_comment = NULL
           /\ before[r].parent_comment = c
           /\ c \notin DOMAIN comments /\ r \notin DOMAIN comments

\* The requests that write posts or tags.
BlogWrites ==
    { "post_create", "post_update", "post_destroy",
      "tag_create", "tag_update", "tag_destroy" }

\* C21: create, update and delete of a post or a tag get 403 from a regular
\* user and 401 from an anonymous requester, and leave the Post and Tag
\* tables as they were; a staff user's valid edit of a post of another staff
\* user gets 200 and is stored; the listings and the retrieval of an existing
\* post or tag get 200 whoever asks.
C21_StaffOnlyWrites ==
    /\ ( last.op \in BlogWrites /\ last.actor \notin Staff )
       => /\ last.status = IF last.actor \in Users THEN HTTP_403_FORBIDDEN
                           ELSE HTTP_401_UNAUTHORIZED
          /\ posts = was.posts
          /\ tags = was.tags
    /\ ( /\ last.op = "post_update"
         /\ last.actor \in Staff
         /\ last.args.pk \in DOMAIN was.posts
         /\ was.posts[last.args.pk].owner \in Staff \ {last.actor}
         /\ post_is_valid(last.args.data) )
       => /\ last.status = HTTP_200_OK
          /\ "title" \in DOMAIN last.args.data
             => posts[last.args.pk].title = last.args.data["title"]
          /\ posts[last.args.pk].owner = was.posts[last.args.pk].owner
    /\ last.op \in {"post_list", "tag_list"} => last.status = HTTP_200_OK
    /\ ( last.op = "post_retrieve" /\ last.args.pk \in DOMAIN was.posts )
       => last.status = HTTP_200_OK
    /\ ( last.op = "tag_retrieve" /\ last.args.pk \in DOMAIN was.tags )
       => last.status = HTTP_200_OK

\* C21 witness: a regular user's request to delete a post that exists was
\* refused with 403, and the post is still there.
C21_Witness ==
    /\ last.op = "post_destroy" /\ last.status = HTTP_403_FORBIDDEN
    /\ last.actor \in Users \ Staff
    /\ last.args.pk \in DOMAIN was.posts
    /\ posts = was.posts

\* C22: a delete-user request of an authenticated user gets 204 and leaves
\* the user's row in place with is_active false and its other fields as they
\* were, every other user as it was, and the posts, tags, comments, wishlists
\* and products as they were; no request removes a row of the User table.
C22_SoftDelete ==
    /\ DOMAIN users = Users
    /\ ( /\ last.op = "delete_user"
         /\ authenticate_credentials(was.users, last.actor) )
       => /\ last.status = HTTP_204_NO_CONTENT
          /\ last.actor \in DOMAIN users
          /\ users = [was.users EXCEPT ![last.actor].is_active = FALSE]
          /\ posts = was.posts /\ tags = was.tags
          /\ comments = before
          /\ wishlists = old.wishlists /\ products = old.products

\* C22 witness: a user who owns a wishlist deleted the account; the row is
\* there, not active, and the wishlist is there.
C22_Witness ==
    /\ last.op = "delete_user" /\ last.status = HTTP_204_NO_CONTENT
    /\ last.actor \in DOMAIN users
    /\ was.users[last.actor].is_active /\ ~users[last.actor].is_active
    /\ \E w \in DOMAIN wishlists : wishlists[w].user = last.actor

====
